---- MODULE Spec2Model ----
(***************************************************************************)
(* A model of the Gatherer provider (mtgjson5/providers/gatherer.py), of   *)
(* the null-field removal of mtgjson4/mtg_storage.py and of the task       *)
(* fan-out of mtgjson4/__main__.py.                                        *)
(*                                                                         *)
(* The subsystems share no state, so each is checked under a specification *)
(* of its own (SpecDownload, SpecChecklist, SpecParse, SpecStorage,        *)
(* SpecMain) in which the variables of the others stay at their initial    *)
(* values.                                                                 *)
(*                                                                         *)
(* A Python str is a sequence of one-character strings; None is the value  *)
(* None below, which is no such sequence.                                  *)
(***************************************************************************)
EXTENDS Integers, Sequences, FiniteSets, TLC

VARIABLES
    \* ---- GathererProvider.download and its ratelimit.limits decorator
    clock,          \* the limiter's clock(), in ticks
    last_reset,     \* limits.last_reset
    num_calls,      \* limits.num_calls
    window_calls,   \* history: calls of the wrapped download body since last_reset
    recent,         \* history: session.get calls per tick, recent[1] is the current tick
    tpc,            \* per calling thread: "idle" or "download" (inside the body)
    ret,            \* per calling thread: how its last call of download ended
    \* ---- get_collector_number_to_multiverse_id_mapping
    cl_pc,          \* "loop", "returned" or "raised"
    page_number,    \* the loop variable of range(0, 10)
    card_number_to_multiverse_id,
    fetched,        \* history: the download results of this call, in order
    \* ---- get_cards / parse_cards / _parse_column
    gc_pc,          \* "start", "parsing", "returned" or "raised"
    response,       \* get_cards' local: "response", "None" or the exception download raised
    gatherer_data,  \* the rightCol columns of the detail page the site serves
    strip_parentheses,
    cards,          \* the GathererCards built so far, then the returned list
    original_text_lines, \* _parse_column's local, per column parsed
    \* ---- write_to_compiled_file / remove_null_fields
    st_pc,          \* "start" or "written"
    file_contents,
    new_contents,   \* what json.dump is given
    \* ---- main()
    main_pc,        \* "ensure_future", "run_until_complete", "returned" or "raised"
    SETS_TO_BUILD,
    tasks,          \* per task of main(): its position in example()
    event_set,      \* the AioEvent's flag
    lock_holder,    \* the task holding the AioLock, or 0
    queue,          \* number of items in the AioQueue
    built           \* history: the set names build_set was called with, in order

vars == <<clock, last_reset, num_calls, window_calls, recent, tpc, ret,
          cl_pc, page_number, card_number_to_multiverse_id, fetched,
          gc_pc, response, gatherer_data, strip_parentheses, cards, original_text_lines,
          st_pc, file_contents, new_contents,
          main_pc, SETS_TO_BUILD, tasks, event_set, lock_holder, queue, built>>

dlVars == <<clock, last_reset, num_calls, window_calls, recent, tpc, ret>>
clVars == <<cl_pc, page_number, card_number_to_multiverse_id, fetched>>
gcVars == <<gc_pc, response, gatherer_data, strip_parentheses, cards, original_text_lines>>
stVars == <<st_pc, file_contents, new_contents>>
mainVars == <<main_pc, SETS_TO_BUILD, tasks, event_set, lock_holder, queue, built>>

\* Python's None.
None == <<"None">>

(***************************************************************************)
(* GathererProvider.download under @ratelimit.limits(calls=40, period=1)   *)
(***************************************************************************)

\* calls=40 and period=1 of the decorator.
CALLS == 40
PERIOD == 1

\* Clock resolution: ticks per second of the limiter's clock.
TicksPerSecond == 1
\* The clock stops advancing at MaxClock.
MaxClock == 2
\* num_calls is followed up to CALLS + MaxOver.
MaxOver == 1
\* Concurrent callers of the one provider instance.
NumThreads == 2

Threads == 1..NumThreads

\* How session.get can end: a response with status 200 or another status,
\* or one of requests' exceptions.
GetOutcomes == {"200", "404", "MaxRetryError", "RetryError", "SSLError", "ConnectionError"}

\* The exceptions download's except clause names.
CaughtExceptions == {"MaxRetryError", "RetryError", "SSLError"}

\* limits.__period_remaining
period_remaining == PERIOD * TicksPerSecond - (clock - last_reset)

\* The decorator's test num_calls > clamped_calls.
OverLimitOffByOne(n) == n > CALLS + 1
OverLimit(n) == n > CALLS

\* The wrapper of ratelimit.limits, its `with self.lock:` block taken as one
\* step: reset the window when the period has elapsed, count the call, and
\* raise RateLimitException when the count exceeds calls; otherwise enter
\* the body of download.
Limits(t) ==
    /\ tpc[t] = "idle"
    /\ LET reset == period_remaining <= 0
           n == (IF reset THEN 0 ELSE num_calls) + 1
       IN /\ n <= CALLS + MaxOver
          /\ num_calls' = n
          /\ last_reset' = IF reset THEN clock ELSE last_reset
          /\ IF OverLimit(n)
                THEN /\ ret' = [ret EXCEPT ![t] = "RateLimitException"]
                     /\ window_calls' = IF reset THEN 0 ELSE window_calls
                     /\ tpc' = tpc
                ELSE /\ ret' = [ret EXCEPT ![t] = "-"]
                     /\ window_calls' = (IF reset THEN 0 ELSE window_calls) + 1
                     /\ tpc' = [tpc EXCEPT ![t] = "download"]
    /\ UNCHANGED <<clock, recent>>
    /\ UNCHANGED <<clVars, gcVars, stVars, mainVars>>

\* What the body of download makes of session.get's outcome.
DownloadResult(outcome) ==
    IF outcome \in CaughtExceptions THEN "None"
    ELSE IF outcome \notin {"200", "404"} THEN outcome
    ELSE IF outcome # "200" THEN "None"
    ELSE "response"

\* The body of download: one session.get, then the except clause and the
\* status test.
Download(t) ==
    /\ tpc[t] = "download"
    /\ \E outcome \in GetOutcomes :
          ret' = [ret EXCEPT ![t] = DownloadResult(outcome)]
    /\ recent' = [recent EXCEPT ![1] = @ + 1]
    /\ tpc' = [tpc EXCEPT ![t] = "idle"]
    /\ UNCHANGED <<clock, last_reset, num_calls, window_calls>>
    /\ UNCHANGED <<clVars, gcVars, stVars, mainVars>>

\* The clock advances by one tick.
Tick ==
    /\ clock < MaxClock
    /\ clock' = clock + 1
    /\ recent' = <<0>> \o SubSeq(recent, 1, Len(recent) - 1)
    /\ UNCHANGED <<last_reset, num_calls, window_calls, tpc, ret>>
    /\ UNCHANGED <<clVars, gcVars, stVars, mainVars>>

DownloadNext == Tick \/ \E t \in Threads : Limits(t) \/ Download(t)

RECURSIVE SumSeq(_)
SumSeq(s) == IF s = <<>> THEN 0 ELSE Head(s) + SumSeq(Tail(s))

(***************************************************************************)
(* GathererProvider.get_collector_number_to_multiverse_id_mapping          *)
(***************************************************************************)

\* The bound of `for page_number in range(0, 10)`.
MAXPAGES == 10

Row(number, id) == [number |-> number, multiverse_id |-> id]

\* The cardItem rows a checklist table can hold.
RowChoices == { <<Row("1", "100")>>, <<Row("1", "101"), Row("2", "102")>> }

\* A checklist page as the parser sees it: whether table.checklist is there,
\* its cardItem rows, whether div.pagingcontrols is there ("nodiv"), holds
\* no <a> ("nolinks") or holds some ("links"), and for the last <a> whether
\* its style has "underline" and whether its text has ">".
Pages ==
    { p \in [table : BOOLEAN, rows : RowChoices \cup {<<>>},
             paging : {"nodiv", "nolinks", "links"},
             underline : BOOLEAN, fwd : BOOLEAN] :
        /\ p.table = (p.rows # <<>>)
        /\ ~p.table => p.paging = "nolinks"
        /\ p.paging # "links" => (~p.underline /\ ~p.fwd) }

NoPage == [table |-> FALSE, rows |-> <<>>, paging |-> "nolinks",
           underline |-> FALSE, fwd |-> FALSE]

\* What self.download can hand to its caller: a response (here with a
\* checklist page), None, or an exception that propagates.
DownloadRaises == {"RateLimitException", "ConnectionError"}
ChecklistDownloads ==
    [result : {"response"}, page : Pages]
        \cup [result : {"None"} \cup DownloadRaises, page : {NoPage}]

EmptyDict == [k \in {} |-> ""]

\* card_number_to_multiverse_id[row_card_number] = row_card_multiverse_id
DictSet(d, k, v) == [x \in DOMAIN d \cup {k} |-> IF x = k THEN v ELSE d[x]]

\* The `for card in cards:` loop over a page's rows.
RECURSIVE AddRows(_, _)
AddRows(d, rows) ==
    IF rows = <<>> THEN d
    ELSE AddRows(DictSet(d, Head(rows).number, Head(rows).multiverse_id), Tail(rows))

\* is_last_page: "underline" in the style, or no ">" in the text.
IsLastPageInverted(p) == p.underline \/ p.fwd
IsLastPage(p) == p.underline \/ ~p.fwd

\* One iteration of the loop, from self.download to the break tests, with the
\* return that follows a break or the end of range(0, 10).  A None response
\* fails at response.text, and a page without div.pagingcontrols fails at
\* .find_all, both with AttributeError.
ChecklistPage ==
    /\ cl_pc = "loop"
    /\ \E r \in ChecklistDownloads :
          /\ fetched' = Append(fetched, r)
          /\ IF r.result # "response"
                THEN /\ cl_pc' = "raised"
                     /\ UNCHANGED <<page_number, card_number_to_multiverse_id>>
             ELSE IF ~r.page.table
                THEN /\ cl_pc' = "returned"
                     /\ UNCHANGED <<page_number, card_number_to_multiverse_id>>
             ELSE /\ card_number_to_multiverse_id' =
                         AddRows(card_number_to_multiverse_id, r.page.rows)
                  /\ IF r.page.paging = "nodiv"
                        THEN cl_pc' = "raised" /\ page_number' = page_number
                     ELSE IF r.page.paging = "nolinks" \/ IsLastPage(r.page)
                        THEN cl_pc' = "returned" /\ page_number' = page_number
                     ELSE IF page_number + 1 < MAXPAGES
                        THEN cl_pc' = "loop" /\ page_number' = page_number + 1
                     ELSE cl_pc' = "returned" /\ page_number' = page_number
    /\ UNCHANGED <<dlVars, gcVars, stVars, mainVars>>

\* The caller takes the result (or the exception) and calls again.
ChecklistCall ==
    /\ cl_pc \in {"returned", "raised"}
    /\ cl_pc' = "loop"
    /\ page_number' = 0
    /\ card_number_to_multiverse_id' = EmptyDict
    /\ fetched' = <<>>
    /\ UNCHANGED <<dlVars, gcVars, stVars, mainVars>>

ChecklistNext == ChecklistPage \/ ChecklistCall

(***************************************************************************)
(* GathererProvider.get_cards, parse_cards, _parse_column                  *)
(***************************************************************************)

\* Longest text of a cardtextbox drawn over Alphabet.
MaxLen == 4
\* Most rightCol columns on a detail page.
MaxColumns == 2

NL == "\n"
Upper == {"A", "B", "C", "D", "E", "F", "G", "H", "I", "J", "K", "L", "M",
          "N", "O", "P", "Q", "R", "S", "T", "U", "V", "W", "X", "Y", "Z"}
Whitespace == {" ", NL}

\* The characters of r"[^ ({\"\-−+/>A-Z]" that the class excludes; "u2212"
\* stands for the minus sign U+2212.
NoBreakAfter == {" ", "(", "{", "\"", "-", "u2212", "+", "/", ">"} \cup Upper

\* str.strip()
RECURSIVE LStrip(_)
LStrip(s) == IF s # <<>> /\ Head(s) \in Whitespace THEN LStrip(Tail(s)) ELSE s
RECURSIVE RStrip(_)
RStrip(s) ==
    IF s # <<>> /\ s[Len(s)] \in Whitespace THEN RStrip(SubSeq(s, 1, Len(s) - 1)) ELSE s
Strip(s) == RStrip(LStrip(s))

\* str.replace(old, new): the occurrences of old found left to right, none
\* overlapping another; an empty old matches before every character and at
\* the end.
RECURSIVE Replace(_, _, _)
Replace(s, old, new) ==
    IF old = <<>>
        THEN IF s = <<>> THEN new ELSE new \o <<Head(s)>> \o Replace(Tail(s), old, new)
    ELSE IF Len(s) < Len(old) THEN s
    ELSE IF SubSeq(s, 1, Len(old)) = old
        THEN new \o Replace(SubSeq(s, Len(old) + 1, Len(s)), old, new)
    ELSE <<Head(s)>> \o Replace(Tail(s), old, new)

\* str.split("\n") and "\n".join(lines)
RECURSIVE Split(_)
Split(s) ==
    IF \A i \in 1..Len(s) : s[i] # NL THEN <<s>>
    ELSE LET i == CHOOSE i \in 1..Len(s) :
                     s[i] = NL /\ \A j \in 1..(i - 1) : s[j] # NL
         IN <<SubSeq(s, 1, i - 1)>> \o Split(SubSeq(s, i + 1, Len(s)))
RECURSIVE Join(_)
Join(lines) ==
    IF lines = <<>> THEN <<>>
    ELSE IF Len(lines) = 1 THEN lines[1]
    ELSE lines[1] \o <<NL>> \o Join(Tail(lines))

\* The index of the first c in s at or after position from, or 0.
FirstAt(s, c, from) ==
    IF \E j \in from..Len(s) : s[j] = c
        THEN CHOOSE j \in from..Len(s) : s[j] = c /\ \A k \in from..(j - 1) : s[k] # c
        ELSE 0

\* re.sub(r"([^ ({\"\-−+/>A-Z])([A-Z])", r"\1\n\2", s)
RECURSIVE InsertBreaks(_)
InsertBreaks(s) ==
    IF Len(s) < 2 THEN s
    ELSE IF s[1] \notin NoBreakAfter /\ s[2] \in Upper
        THEN <<s[1], NL, s[2]>> \o InsertBreaks(SubSeq(s, 3, Len(s)))
    ELSE <<s[1]>> \o InsertBreaks(Tail(s))

\* re.sub(r" \([^)]*\)", "", s)
RECURSIVE DropParentheses(_)
DropParentheses(s) ==
    IF s = <<>> THEN s
    ELSE IF Len(s) >= 2 /\ s[1] = " " /\ s[2] = "(" /\ FirstAt(s, ")", 3) # 0
        THEN DropParentheses(SubSeq(s, FirstAt(s, ")", 3) + 1, Len(s)))
    ELSE <<s[1]>> \o DropParentheses(Tail(s))

\* strip_parentheses_from_text
strip_parentheses_from_text(text) ==
    Strip(Replace(DropParentheses(text), <<" ", " ">>, <<" ">>))

\* re.sub(r"<[^>]+>", "", s)
RECURSIVE StripTags(_)
StripTags(s) ==
    IF s = <<>> THEN s
    ELSE IF Len(s) >= 3 /\ s[1] = "<" /\ s[2] # ">" /\ FirstAt(s, ">", 3) # 0
        THEN StripTags(SubSeq(s, FirstAt(s, ">", 3) + 1, Len(s)))
    ELSE <<s[1]>> \o StripTags(Tail(s))

\* The alt texts of the <img> tags a cardtextbox can hold, and what
\* "{" + SYMBOL_MAP.get(alt, alt) + "}" makes of each.
ImageAlts == {"White", "Zz"}
SymbolText(alt) ==
    CASE alt = "White" -> <<"{", "W", "}">>
      [] OTHER -> <<"{", "Z", "z", "}">>

\* _replace_symbols followed by getText(): every image becomes its symbol.
RECURSIVE replace_symbols(_)
replace_symbols(tag) ==
    IF tag = <<>> THEN <<>>
    ELSE (IF Head(tag) \in ImageAlts THEN SymbolText(Head(tag)) ELSE <<Head(tag)>>)
            \o replace_symbols(Tail(tag))

\* textbox_value.replace(card_name, "(CN)")
MaskToken == <<"(", "C", "N", ")">>
MaskNothing(textbox_value, card_name) == textbox_value
Mask(textbox_value, card_name) == Replace(textbox_value, card_name, MaskToken)

\* Lines 199 to 206: one cardtextbox to its textbox_line.
TextboxLine(textbox, card_name) ==
    Replace(InsertBreaks(Mask(Strip(replace_symbols(textbox)), card_name)),
            MaskToken, card_name)

\* `x or None`
OrNone(x) == IF x = <<>> THEN None ELSE x

\* The original_text_lines of a column's "Card Text" boxes.
RECURSIVE TextLines(_, _)
TextLines(boxes, card_name) ==
    IF boxes = <<>> THEN <<>>
    ELSE Split(TextboxLine(Head(boxes), card_name)) \o TextLines(Tail(boxes), card_name)

\* The flavor_lines of a column's "Flavor Text" boxes: getText(strip=True).
FlavorLines(boxes) == [i \in 1..Len(boxes) |-> Strip(boxes[i])]

HasRequiredLabels(label_to_values) ==
    {"Card Name", "Types"} \subseteq DOMAIN label_to_values

\* _parse_column on a column that has both required labels.
parse_column(label_to_values, strip) ==
    LET card_name == Strip(label_to_values["Card Name"])
        card_types == Strip(label_to_values["Types"])
        flavor_lines == IF "Flavor Text" \in DOMAIN label_to_values
                           THEN FlavorLines(label_to_values["Flavor Text"])
                           ELSE <<>>
        lines == IF "Card Text" \in DOMAIN label_to_values
                    THEN TextLines(label_to_values["Card Text"], card_name)
                    ELSE <<>>
        text0 == OrNone(Strip(Join(lines)))
        text1 == IF strip /\ text0 # None
                    THEN strip_parentheses_from_text(text0)
                    ELSE text0
    IN [card_name |-> card_name,
        original_types |-> card_types,
        original_text |-> IF text1 # None /\ text1 # <<>> THEN StripTags(text1) ELSE None,
        flavor_text |-> OrNone(Strip(Join(flavor_lines))),
        lines |-> lines]

\* get_cards up to the call of parse_cards: the download, and the return of
\* [] when it gave no response.
GetCards ==
    /\ gc_pc = "start"
    /\ \E r \in {"response", "None"} \cup DownloadRaises :
          /\ response' = r
          /\ gc_pc' = IF r = "response"
                         THEN (IF gatherer_data = <<>> THEN "returned" ELSE "parsing")
                      ELSE IF r = "None" THEN "returned"
                      ELSE "raised"
    /\ UNCHANGED <<gatherer_data, strip_parentheses, cards, original_text_lines>>
    /\ UNCHANGED <<dlVars, clVars, stVars, mainVars>>

\* One element of parse_cards' list comprehension: _parse_column on the next
\* column.  A column without "Card Name" or "Types" raises KeyError, which
\* ends parse_cards and get_cards.
ParseColumn ==
    /\ gc_pc = "parsing"
    /\ LET c == gatherer_data[Len(cards) + 1]
       IN IF ~HasRequiredLabels(c)
             THEN /\ gc_pc' = "raised"
                  /\ UNCHANGED <<cards, original_text_lines>>
             ELSE LET card == parse_column(c, strip_parentheses)
                  IN /\ cards' = Append(cards, [card_name |-> card.card_name,
                                                original_types |-> card.original_types,
                                                original_text |-> card.original_text,
                                                flavor_text |-> card.flavor_text])
                     /\ original_text_lines' = card.lines
                     /\ gc_pc' = IF Len(cards) + 1 = Len(gatherer_data)
                                    THEN "returned" ELSE "parsing"
    /\ UNCHANGED <<response, gatherer_data, strip_parentheses>>
    /\ UNCHANGED <<dlVars, clVars, stVars, mainVars>>

\* The characters the enumerated cardtextbox texts are made of.
Alphabet == {"a", "A", " ", "(", ")", "<", ">"}
Texts == UNION {[1..n -> Alphabet] : n \in 0..MaxLen}

\* The card names of the enumerated columns.
Names == { <<"A">>, <<"A", "A">>, <<"a", "A">> }

Column(name, types, boxes) ==
    ("Card Name" :> name) @@ ("Types" :> types) @@ ("Card Text" :> boxes)

\* Single-column pages: every name with every text in one cardtextbox.
TextPages == { << Column(n, <<"T">>, <<t>>) >> : n \in Names, t \in Texts }

\* The (card name, textbox) pairs checked beside the enumerated ones.
Shock == <<"S", "h", "o", "c", "k">>
ShockText ==
    <<"S", "h", "o", "c", "k", "D", "e", "a", "l", "s", "2", "d", "a", "m", "a", "g", "e">>
SamplePages ==
    { << Column(Shock, <<"I", "n", "s", "t", "a", "n", "t">>, <<ShockText>>) >>,
      << Column(<<"A">>, <<"T">>, << <<"White", ":", " ", "A", "d", "d", "Zz", ".">> >>) >>,
      << Column(<<"A">>, <<"T">>, << <<"a", "A">>, <<" ", "b", "B", " ">> >>) >> }

\* The columns of the multi-column pages: complete ones, ones without the
\* optional labels, with empty optional values, and without a required label.
FlavorChoices == { <<>>, << <<" ">> >>, << <<"f">> >>, << <<"f", " ">>, <<"g">> >> }
PlainColumns ==
    { ("Card Name" :> <<"A">>) @@ ("Types" :> <<"T">>),
      ("Card Name" :> <<"B">>) @@ ("Types" :> <<"T">>) @@ ("Card Text" :> <<>>),
      ("Card Name" :> <<"C">>) @@ ("Card Text" :> << <<"a">> >>),
      ("Types" :> <<"T">>) @@ ("Card Text" :> << <<"a">> >>) }
        \cup { ("Card Name" :> <<"D">>) @@ ("Types" :> <<"T">>) @@ ("Flavor Text" :> f) :
                 f \in FlavorChoices }
ColumnPages == UNION {[1..n -> PlainColumns] : n \in 0..MaxColumns}

DetailPages == TextPages \cup SamplePages \cup ColumnPages

GetCardsNext == GetCards \/ ParseColumn

(***************************************************************************)
(* mtg_storage.remove_null_fields and write_to_compiled_file               *)
(***************************************************************************)

\* Longest list of the enumerated file contents.
MaxItems == 2

\* JSON values: a tag and a payload.  A dict is the sequence of its
\* (key, value) pairs, in insertion order.
JNull == [t |-> "null", v |-> <<>>]
JInt(i) == [t |-> "int", v |-> <<i>>]
JStr(str) == [t |-> "str", v |-> str]
JList(items) == [t |-> "list", v |-> items]
JDict(pairs) == [t |-> "dict", v |-> pairs]

\* Python's truth value of a JSON value: None, 0, "", [] and {} are false.
Truthy(x) ==
    CASE x.t = "null" -> FALSE
      [] x.t = "int" -> x.v # <<0>>
      [] OTHER -> x.v # <<>>

\* remove_null_fields: a value that is no dict or list is returned as it
\* is; a list or dict keeps the cleaned elements that are true.
RECURSIVE remove_null_fields(_)
remove_null_fields_lists_unvisited(card_dict) ==
    IF card_dict.t \notin {"dict", "list"} THEN card_dict
    ELSE IF card_dict.t = "list"
        THEN JList(SelectSeq(card_dict.v, Truthy))
    ELSE LET cleaned == [i \in 1..Len(card_dict.v) |->
                            <<card_dict.v[i][1], remove_null_fields(card_dict.v[i][2])>>]
             KeepPair(kv) == Truthy(kv[2])
         IN JDict(SelectSeq(cleaned, KeepPair))
remove_null_fields(card_dict) ==
    IF card_dict.t \notin {"dict", "list"} THEN card_dict
    ELSE IF card_dict.t = "list"
        THEN LET cleaned == [i \in 1..Len(card_dict.v) |-> remove_null_fields(card_dict.v[i])]
             IN JList(SelectSeq(cleaned, Truthy))
    ELSE LET cleaned == [i \in 1..Len(card_dict.v) |->
                            <<card_dict.v[i][1], remove_null_fields(card_dict.v[i][2])>>]
             KeepPair(kv) == Truthy(kv[2])
         IN JDict(SelectSeq(cleaned, KeepPair))

\* write_to_compiled_file: new_contents = remove_null_fields(file_contents),
\* then json.dump(new_contents, ...).
WriteToCompiledFile ==
    /\ st_pc = "start"
    /\ new_contents' = remove_null_fields(file_contents)
    /\ st_pc' = "written"
    /\ UNCHANGED file_contents
    /\ UNCHANGED <<dlVars, clVars, gcVars, mainVars>>

\* The enumerated file contents: dicts over Keys and lists of up to MaxItems
\* elements, nested two deep over Leaves, and a few nested deeper.
Leaves == {JNull, JInt(0), JStr(<<"x">>)}
Keys == <<"a", "b">>
ListsOf(S) == {JList(l) : l \in UNION {[1..n -> S] : n \in 0..MaxItems}}
DictsOf(S) ==
    {JDict(<<>>)}
        \cup {JDict(<< <<k, x>> >>) : k \in {Keys[1], Keys[2]}, x \in S}
        \cup {JDict(<< <<Keys[1], x>>, <<Keys[2], y>> >>) : x \in S, y \in S}
Values1 == Leaves \cup ListsOf(Leaves) \cup DictsOf(Leaves)
Values2 == ListsOf(Values1) \cup DictsOf(Values1)
DeepContents ==
    { JDict(<< <<"a", JList(<< JDict(<< <<"b", JList(<<JNull, JInt(1)>>)>> >>) >>)>> >>),
      JDict(<< <<"a", JDict(<< <<"a", JDict(<< <<"a", JNull>>, <<"b", JStr(<<>>)>> >>)>> >>)>>,
               <<"b", JList(<< JList(<< JList(<<JNull>>), JStr(<<"x">>) >>) >>)>> >>) }

StorageNext == WriteToCompiledFile

(***************************************************************************)
(* mtgjson4.__main__.main                                                  *)
(***************************************************************************)

\* Longest SETS_TO_BUILD.
MaxSets == 4

SetNames == {"10E", "LEA"}

\* tasks = [asyncio.ensure_future(example(...)) for set_name in SETS_TO_BUILD],
\* one ensure_future at a time; no task runs before the loop does.
EnsureFuture ==
    /\ main_pc = "ensure_future"
    /\ Len(tasks) < Len(SETS_TO_BUILD)
    /\ tasks' = Append(tasks, "created")
    /\ UNCHANGED <<main_pc, SETS_TO_BUILD, event_set, lock_holder, queue, built>>
    /\ UNCHANGED <<dlVars, clVars, gcVars, stVars>>

\* loop.run_until_complete(asyncio.wait(tasks)) is entered; asyncio.wait
\* raises ValueError for an empty list.
RunUntilComplete ==
    /\ main_pc = "ensure_future"
    /\ Len(tasks) = Len(SETS_TO_BUILD)
    /\ main_pc' = IF tasks = <<>> THEN "raised" ELSE "run_until_complete"
    /\ UNCHANGED <<SETS_TO_BUILD, tasks, event_set, lock_holder, queue, built>>
    /\ UNCHANGED <<dlVars, clVars, gcVars, stVars>>

\* The event loop runs task i of example() to its next await:
\*   created     to the await of event.coro_wait()
\*   wait_event  past it once the event is set (nothing in main() sets it)
\*   wait_lock   into `async with lock` once the lock is free
\*   locked      build_set(set_name, 'en') and queue.coro_put(None), then
\*               the lock is released and the task is done
\* and run_until_complete returns when the last task is done.
TaskStep(i) ==
    /\ main_pc = "run_until_complete"
    /\ CASE tasks[i] = "created" ->
              /\ tasks' = [tasks EXCEPT ![i] = "wait_event"]
              /\ UNCHANGED <<main_pc, lock_holder, queue, built>>
         [] tasks[i] = "wait_event" ->
              /\ event_set
              /\ tasks' = [tasks EXCEPT ![i] = "wait_lock"]
              /\ UNCHANGED <<main_pc, lock_holder, queue, built>>
         [] tasks[i] = "wait_lock" ->
              /\ lock_holder = 0
              /\ lock_holder' = i
              /\ tasks' = [tasks EXCEPT ![i] = "locked"]
              /\ UNCHANGED <<main_pc, queue, built>>
         [] tasks[i] = "locked" ->
              /\ built' = Append(built, SETS_TO_BUILD[i])
              /\ queue' = queue + 1
              /\ lock_holder' = 0
              /\ tasks' = [tasks EXCEPT ![i] = "done"]
              /\ main_pc' = IF \A j \in DOMAIN tasks \ {i} : tasks[j] = "done"
                               THEN "returned" ELSE main_pc
         [] OTHER -> FALSE
    /\ UNCHANGED <<SETS_TO_BUILD, event_set>>
    /\ UNCHANGED <<dlVars, clVars, gcVars, stVars>>

MainNext == EnsureFuture \/ RunUntilComplete \/ \E i \in DOMAIN tasks : TaskStep(i)

(***************************************************************************)
(* Specifications                                                          *)
(***************************************************************************)

\* The provider instance with no call of download made yet; the other
\* subsystems are not started.
InitDownload ==
    /\ clock = 0
    /\ last_reset = 0
    /\ num_calls = 0
    /\ window_calls = 0
    /\ recent = [i \in 1..(PERIOD * TicksPerSecond) |-> 0]
    /\ tpc = [t \in Threads |-> "idle"]
    /\ ret = [t \in Threads |-> "-"]
    /\ cl_pc = "idle"
    /\ page_number = 0
    /\ card_number_to_multiverse_id = EmptyDict
    /\ fetched = <<>>
    /\ gc_pc = "idle"
    /\ response = "-"
    /\ gatherer_data = <<>>
    /\ strip_parentheses = FALSE
    /\ cards = <<>>
    /\ original_text_lines = <<>>
    /\ st_pc = "idle"
    /\ file_contents = JNull
    /\ new_contents = JNull
    /\ main_pc = "idle"
    /\ SETS_TO_BUILD = <<>>
    /\ tasks = <<>>
    /\ event_set = FALSE
    /\ lock_holder = 0
    /\ queue = 0
    /\ built = <<>>

SpecDownload == InitDownload /\ [][DownloadNext]_vars

\* A call of get_collector_number_to_multiverse_id_mapping begins; the other
\* subsystems are not started.
InitChecklist ==
    /\ clock = 0
    /\ last_reset = 0
    /\ num_calls = 0
    /\ window_calls = 0
    /\ recent = [i \in 1..(PERIOD * TicksPerSecond) |-> 0]
    /\ tpc = [t \in Threads |-> "idle"]
    /\ ret = [t \in Threads |-> "-"]
    /\ cl_pc = "loop"
    /\ page_number = 0
    /\ card_number_to_multiverse_id = EmptyDict
    /\ fetched = <<>>
    /\ gc_pc = "idle"
    /\ response = "-"
    /\ gatherer_data = <<>>
    /\ strip_parentheses = FALSE
    /\ cards = <<>>
    /\ original_text_lines = <<>>
    /\ st_pc = "idle"
    /\ file_contents = JNull
    /\ new_contents = JNull
    /\ main_pc = "idle"
    /\ SETS_TO_BUILD = <<>>
    /\ tasks = <<>>
    /\ event_set = FALSE
    /\ lock_holder = 0
    /\ queue = 0
    /\ built = <<>>

SpecChecklist == InitChecklist /\ [][ChecklistNext]_vars

\* A call of get_cards begins, for a detail page the site serves; the other
\* subsystems are not started.
InitParse ==
    /\ clock = 0
    /\ last_reset = 0
    /\ num_calls = 0
    /\ window_calls = 0
    /\ recent = [i \in 1..(PERIOD * TicksPerSecond) |-> 0]
    /\ tpc = [t \in Threads |-> "idle"]
    /\ ret = [t \in Threads |-> "-"]
    /\ cl_pc = "idle"
    /\ page_number = 0
    /\ card_number_to_multiverse_id = EmptyDict
    /\ fetched = <<>>
    /\ gc_pc = "start"
    /\ response = "-"
    /\ gatherer_data \in DetailPages
    /\ strip_parentheses \in BOOLEAN
    /\ cards = <<>>
    /\ original_text_lines = <<>>
    /\ st_pc = "idle"
    /\ file_contents = JNull
    /\ new_contents = JNull
    /\ main_pc = "idle"
    /\ SETS_TO_BUILD = <<>>
    /\ tasks = <<>>
    /\ event_set = FALSE
    /\ lock_holder = 0
    /\ queue = 0
    /\ built = <<>>

SpecParse == InitParse /\ [][GetCardsNext]_vars

\* A call of write_to_compiled_file begins; the other subsystems are not started.
InitStorage ==
    /\ clock = 0
    /\ last_reset = 0
    /\ num_calls = 0
    /\ window_calls = 0
    /\ recent = [i \in 1..(PERIOD * TicksPerSecond) |-> 0]
    /\ tpc = [t \in Threads |-> "idle"]
    /\ ret = [t \in Threads |-> "-"]
    /\ cl_pc = "idle"
    /\ page_number = 0
    /\ card_number_to_multiverse_id = EmptyDict
    /\ fetched = <<>>
    /\ gc_pc = "idle"
    /\ response = "-"
    /\ gatherer_data = <<>>
    /\ strip_parentheses = FALSE
    /\ cards = <<>>
    /\ original_text_lines = <<>>
    /\ st_pc = "start"
    /\ file_contents \in Values2 \cup DeepContents
    /\ new_contents = JNull
    /\ main_pc = "idle"
    /\ SETS_TO_BUILD = <<>>
    /\ tasks = <<>>
    /\ event_set = FALSE
    /\ lock_holder = 0
    /\ queue = 0
    /\ built = <<>>

SpecStorage == InitStorage /\ [][StorageNext]_vars

\* main() begins, with the SETS_TO_BUILD of the command line; the other
\* subsystems are not started.
InitMain ==
    /\ clock = 0
    /\ last_reset = 0
    /\ num_calls = 0
    /\ window_calls = 0
    /\ recent = [i \in 1..(PERIOD * TicksPerSecond) |-> 0]
    /\ tpc = [t \in Threads |-> "idle"]
    /\ ret = [t \in Threads |-> "-"]
    /\ cl_pc = "idle"
    /\ page_number = 0
    /\ card_number_to_multiverse_id = EmptyDict
    /\ fetched = <<>>
    /\ gc_pc = "idle"
    /\ response = "-"
    /\ gatherer_data = <<>>
    /\ strip_parentheses = FALSE
    /\ cards = <<>>
    /\ original_text_lines = <<>>
    /\ st_pc = "idle"
    /\ file_contents = JNull
    /\ new_contents = JNull
    /\ main_pc = "ensure_future"
    /\ SETS_TO_BUILD \in UNION {[1..n -> SetNames] : n \in 0..MaxSets}
    /\ tasks = <<>>
    /\ event_set = FALSE
    /\ lock_holder = 0
    /\ queue = 0
    /\ built = <<>>

SpecMain == InitMain /\ [][MainNext]_vars

\* C1 (as claimed): no call of download ends by raising.
C1_DownloadNeverRaises ==
    \A t \in Threads : ret[t] \in {"-", "response", "None"}

\* C2 (as claimed): at most 40 session.get calls in any one second.
C2_SlidingWindowCap == SumSeq(recent) <= CALLS

\* C2 (amended): at most 40 calls enter the body of download in one window
\* of the limiter, and a window is reset only after a full period.
C2_FixedWindowCap ==
    /\ [](window_calls <= CALLS)
    /\ [][last_reset' # last_reset =>
            clock' - last_reset >= PERIOD * TicksPerSecond]_vars

C2_Witness == window_calls = CALLS /\ num_calls > CALLS /\ last_reset > 0

\* The pages among the download results so far.
FetchedPages == [i \in 1..Len(fetched) |-> fetched[i].page]

\* A terminating page as the specification describes it: no checklist table,
\* no pagination control, or a final pagination element without a forward
\* affordance or marked current.
IsTerminating(p) ==
    \/ ~p.table
    \/ p.paging # "links"
    \/ ~p.fwd
    \/ p.underline

\* The rows of a sequence of pages, in order.
RECURSIVE AllRows(_)
AllRows(ps) == IF ps = <<>> THEN <<>> ELSE Head(ps).rows \o AllRows(Tail(ps))

\* The map a sequence of rows stands for: per collector number, the id of
\* the last row that has it.
MapOfRows(rows) ==
    [k \in {rows[i].number : i \in 1..Len(rows)} |->
        LET last == CHOOSE i \in 1..Len(rows) :
                       /\ rows[i].number = k
                       /\ \A j \in (i + 1)..Len(rows) : rows[j].number # k
        IN rows[last].multiverse_id]

LastFetched == fetched[Len(fetched)]

\* C3 (as claimed): once a terminating page has been fetched, the call has
\* returned the map of the entries of the pages fetched up to and including
\* that page.
C3_ReturnsMapAtFirstTerminating ==
    (fetched # <<>> /\ LastFetched.result = "response" /\ IsTerminating(LastFetched.page))
        => /\ cl_pc = "returned"
           /\ card_number_to_multiverse_id = MapOfRows(AllRows(FetchedPages))

\* C4 (as claimed, for the checklist): a failed page fetch (download gave
\* None) does not make the call raise.
C4_FetchFailureDoesNotRaise ==
    (fetched # <<>> /\ LastFetched.result = "None") => cl_pc # "raised"

\* C9 (as claimed): whenever the call has returned, the last page it fetched
\* was a terminating page.
C9_ReturnsOnlyAfterTerminating ==
    cl_pc = "returned" => IsTerminating(LastFetched.page)

\* C9 (amended): whenever the call has returned, the last page it fetched was
\* a terminating page or it was the tenth page, page 9, where range(0, 10)
\* ends; in both cases the map is that of the pages fetched.
C9_ReturnsAfterTerminatingOrTenPages ==
    cl_pc = "returned" =>
        /\ LastFetched.result = "response"
        /\ IsTerminating(LastFetched.page) \/ Len(fetched) = MAXPAGES
        /\ card_number_to_multiverse_id = MapOfRows(AllRows(FetchedPages))

C9_Witness ==
    /\ cl_pc = "returned"
    /\ Len(fetched) = 3
    /\ IsTerminating(LastFetched.page)
    /\ LastFetched.page.table
    /\ DOMAIN card_number_to_multiverse_id = {"1", "2"}

\* The columns of the page that have both required labels, in page order.
GoodColumns == SelectSeq(gatherer_data, HasRequiredLabels)

\* C5 (as claimed): parse_cards on a page ends by returning one card, in page
\* order, for every block that has both "Card Name" and "Types", whatever
\* the other blocks lack.
C5_BlockWithoutLabelIsSkipped ==
    (response = "response" /\ Len(gatherer_data) >= 2 /\ gc_pc \in {"returned", "raised"})
        => /\ gc_pc = "returned"
           /\ Len(cards) = Len(GoodColumns)
           /\ \A i \in 1..Len(cards) :
                 cards[i].card_name = Strip(GoodColumns[i]["Card Name"])

\* C6 (as claimed): of every card, original_text and flavor_text are None or a
\* non-empty string, and None when the label is missing or has no paragraphs.
C6_TextIsNoneOrNonEmpty ==
    \A i \in 1..Len(cards) :
        LET c == gatherer_data[i]
            Empty(label) == label \notin DOMAIN c \/ c[label] = <<>>
        IN /\ cards[i].original_text # <<>>
           /\ cards[i].flavor_text # <<>>
           /\ Empty("Card Text") => cards[i].original_text = None
           /\ Empty("Flavor Text") => cards[i].flavor_text = None

\* For C7: the column parsed last, when it has one cardtextbox whose text,
\* after symbol replacement and strip(), has no line break and no "(CN)" of
\* its own.
Occurrences(s, w) == {i \in 1..(Len(s) - Len(w) + 1) : SubSeq(s, i, i + Len(w) - 1) = w}
ParsedColumn == gatherer_data[Len(cards)]
RawParagraph == Strip(replace_symbols(ParsedColumn["Card Text"][1]))
ParsedName == cards[Len(cards)].card_name
OneParagraphParsed ==
    /\ cards # <<>>
    /\ "Card Text" \in DOMAIN ParsedColumn
    /\ Len(ParsedColumn["Card Text"]) = 1
    /\ \A i \in 1..Len(RawParagraph) : RawParagraph[i] # NL
    /\ Occurrences(RawParagraph, MaskToken) = {}

\* The reconstructed text, and where it has a line break: p is in Breaks when
\* a line break stands after the p-th character that is not one.
Reconstructed == Join(original_text_lines)
NotNL(c) == c # NL
Breaks ==
    { Len(SelectSeq(SubSeq(Reconstructed, 1, k), NotNL)) :
        k \in {j \in 1..Len(Reconstructed) : Reconstructed[j] = NL} }

\* The occurrences of w in s that a left-to-right scan without overlaps finds.
RECURSIVE ScanFrom(_, _, _)
ScanFrom(s, w, from) ==
    IF from + Len(w) - 1 > Len(s) THEN {}
    ELSE IF SubSeq(s, from, from + Len(w) - 1) = w
        THEN {from} \cup ScanFrom(s, w, from + Len(w))
    ELSE ScanFrom(s, w, from + 1)

\* Of the occurrences of the name at the positions in `at`: none has a line
\* break inside, and each followed by an uppercase letter that begins no
\* occurrence in `at` has a line break after it.
IntactAt(at) ==
    LET n == Len(ParsedName)
    IN /\ SelectSeq(Reconstructed, NotNL) = RawParagraph
       /\ \A i \in at :
             /\ \A p \in Breaks : ~(i <= p /\ p <= i + n - 2)
             /\ (i + n <= Len(RawParagraph) /\ RawParagraph[i + n] \in Upper
                    /\ (i + n) \notin at)
                   => (i + n - 1) \in Breaks

\* C7 (as claimed): every occurrence of the card name in the raw paragraph is
\* intact in the reconstructed text, with a line break before an uppercase
\* letter that follows it.
C7_EveryOccurrenceIntact ==
    OneParagraphParsed => IntactAt(Occurrences(RawParagraph, ParsedName))

\* C7 (amended): the same of the occurrences that str.replace masks, those a
\* left-to-right scan without overlaps finds.
C7_MaskedOccurrencesIntact ==
    OneParagraphParsed => IntactAt(ScanFrom(RawParagraph, ParsedName, 1))

C7_Witness ==
    /\ OneParagraphParsed
    /\ ParsedName = Shock
    /\ original_text_lines = <<Shock, <<"D", "e", "a", "l", "s", "2", "d", "a", "m", "a", "g", "e">> >>

\* Whether a JSON value holds a null: as a dict's value or a list's element,
\* at any depth, or as the value itself.
RECURSIVE HoldsNull(_)
HoldsNull(x) ==
    CASE x.t = "null" -> TRUE
      [] x.t = "list" -> \E i \in 1..Len(x.v) : HoldsNull(x.v[i])
      [] x.t = "dict" -> \E i \in 1..Len(x.v) : HoldsNull(x.v[i][2])
      [] OTHER -> FALSE

\* C8: what write_to_compiled_file hands to json.dump holds no null at any
\* depth.
C8_NoNullPersisted == st_pc = "written" => ~HoldsNull(new_contents)

C8_Witness ==
    /\ st_pc = "written"
    /\ file_contents \in DeepContents
    /\ HoldsNull(file_contents)
    /\ new_contents.v # <<>>

\* C10 (as claimed, as far as a finite run shows it): for a non-empty
\* SETS_TO_BUILD, until main() has returned some step of main() or of one of
\* its tasks can be taken, so that no task is left waiting for ever.
C10_MainNeverStuck ==
    (SETS_TO_BUILD # <<>> /\ main_pc # "returned") => ENABLED MainNext
====
